---- MODULE Spec2Model ----
(***************************************************************************)
(* A model of scxplit/eda.py: SampleFeatureMatrix, SampleDistanceMatrix    *)
(* and SingleLabelClassifiedSamples.                                       *)
(*                                                                         *)
(* Representation.                                                         *)
(*  - A float is an integer counting halves (2 stands for 1.0, -1 for      *)
(*    -0.5); only finite values are modelled, and every operation of the   *)
(*    code on them (comparison, assignment) is exact on such values.       *)
(*  - A python value that may be None, a list, a tuple or an ndarray is a  *)
(*    record with a "kind" field.  A 2-D array carries its rows as a       *)
(*    sequence of equally long sequences (indices start at 1).             *)
(*  - An identifier or label is a record [t |-> type name, v |-> value];   *)
(*    values of one type are ordered by v.                                 *)
(*  - A call returns Ok(value) or Raise(exception type, message).          *)
(***************************************************************************)
EXTENDS Integers, Sequences, FiniteSets, TLC

VARIABLES
    self,   \* the object the calls act on (its private fields), or NoObj
    call,   \* the operation invoked last, with its arguments
    ret,    \* what that operation returned or raised
    held,   \* the values the caller holds from earlier accessor calls
    pc      \* "idle": nothing called yet; "done": the call of `call' has run

vars == <<self, call, ret, held, pc>>

---------------------------------------------------------------------------
(* Bounds of the model *)

MaxN == 2          \* largest dimension of the enumerated distance matrices
MaxVal == 1        \* largest entry, in halves, of the matrices up to 2 x 2
MaxRows == 2       \* largest row count of the enumerated feature matrices
MaxCols == 2       \* largest column count of the enumerated feature matrices
MaxIdLen == 2      \* longest identifier list given to a constructor
MaxSamples == 3    \* most samples of a labeled index
MaxLabels == 2     \* most distinct labels of a labeled index
MaxRuns == 3       \* most t-SNE results stored in one cache
MaxHeld == 2       \* most accessor results the caller keeps
MaxRefSamples == 2 \* most samples of an index sorted by a longer reference
MaxExtra == 2      \* most foreign ids of a reference order

---------------------------------------------------------------------------
(* Python values *)

None == [kind |-> "None"]
NoObj == [kind |-> "NoObj"]
NoCall == [op |-> "none"]

Ok(v) == [ok |-> TRUE, val |-> v]
Raise(t, m) == [ok |-> FALSE, exc |-> t, msg |-> m]

Float(v) == [kind |-> "float", v |-> v]
Str(s) == [kind |-> "str", v |-> s]
Id(t, v) == [t |-> t, v |-> v]
List(items) == [kind |-> "list", items |-> items]
Tuple(items) == [kind |-> "tuple", items |-> items]
\* something array-like: numeric says whether float64 conversion succeeds
ArrLike(k, numeric, ndim, rows) ==
    [kind |-> k, numeric |-> numeric, ndim |-> ndim, rows |-> rows]
NdArray(rows) == ArrLike("ndarray", TRUE, 2, rows)

Range(s) == {s[i] : i \in DOMAIN s}
SeqsUpTo(S, n) == UNION {[1..k -> S] : k \in 0..n}
Mats(r, c, S) == [1..r -> [1..c -> S]]

Shape0(rows) == Len(rows)
Shape1(rows) == IF Len(rows) = 0 THEN 0 ELSE Len(rows[1])
Size(rows) == Shape0(rows) * Shape1(rows)
Transpose(rows) ==
    [i \in 1..Shape1(rows) |-> [j \in 1..Shape0(rows) |-> rows[j][i]]]

---------------------------------------------------------------------------
(* utils.is_uniq_np1darr: no value occurs twice *)

is_uniq_np1darr(items) ==
    \A i, j \in DOMAIN items : items[i] = items[j] => i = j

(* SampleFeatureMatrix.is_valid_sfid *)
is_valid_sfid(sfid) == sfid.t = "str" \/ sfid.t = "int"

MsgHomog == "[sf]ids must be a homogenous list of int or str"
MsgShape == "x has shape (n_samples, n_features)"

(* SampleFeatureMatrix.check_is_valid_sfids: Ok(None) or the ValueError *)
check_is_valid_sfids(sfids) ==
    IF sfids.kind = "None"
    THEN Raise("ValueError", "[sf]ids cannot be None")
    ELSE IF sfids.kind # "list"
    THEN Raise("ValueError", MsgHomog)
    ELSE IF Len(sfids.items) = 0
    THEN Raise("ValueError", "[sf]ids must have >= 1 values")
    ELSE IF Cardinality({sfids.items[i].t : i \in DOMAIN sfids.items}) # 1
    THEN Raise("ValueError", MsgHomog)
    ELSE IF ~ is_valid_sfid(sfids.items[1])
    THEN Raise("ValueError", MsgHomog)
    ELSE IF ~ is_uniq_np1darr(sfids.items)
    THEN Raise("ValueError", "[sf]ids must not contain duplicated values")
    ELSE Ok(None)

(* list(range(n)) *)
RangeIds(n) == [i \in 1..n |-> Id("int", i - 1)]

(* The identifier part of SampleFeatureMatrix.__init__, for one of the two  *)
(* identifier arguments: the default, or validation and then the length     *)
(* check against the matrix dimension n.                                    *)
InitIds_NoLenCheck(ids, n) ==
    IF ids.kind = "None" THEN Ok(RangeIds(n))
    ELSE IF ~ check_is_valid_sfids(ids).ok THEN check_is_valid_sfids(ids)
    ELSE Ok(ids.items)

InitIds(ids, n) ==
    IF ids.kind = "None" THEN Ok(RangeIds(n))
    ELSE IF ~ check_is_valid_sfids(ids).ok THEN check_is_valid_sfids(ids)
    ELSE IF Len(ids.items) # n THEN Raise("ValueError", MsgShape)
    ELSE Ok(ids.items)

(* SampleFeatureMatrix.__init__: Ok(the fields) or the ValueError *)
SampleFeatureMatrix(x, sids, fids) ==
    IF x.kind = "None" THEN Raise("ValueError", "x cannot be None")
    ELSE IF ~ x.numeric THEN Raise("ValueError", "Features must be float.")
    ELSE IF x.ndim # 2 THEN Raise("ValueError", MsgShape)
    ELSE IF Size(x.rows) = 0 THEN Raise("ValueError", "size of x cannot be 0")
    ELSE IF ~ InitIds(sids, Shape0(x.rows)).ok
    THEN InitIds(sids, Shape0(x.rows))
    ELSE IF ~ InitIds(fids, Shape1(x.rows)).ok
    THEN InitIds(fids, Shape1(x.rows))
    ELSE Ok([_x |-> x.rows,
             _sids |-> InitIds(sids, Shape0(x.rows)).val,
             _fids |-> InitIds(fids, Shape1(x.rows)).val])

---------------------------------------------------------------------------
(* SampleDistanceMatrix.num_correct_dist_mat, statement by statement *)

\* dmat[dmat < 0] = 0
ClampNeg(m) ==
    [i \in DOMAIN m |-> [j \in DOMAIN m[i] |->
        IF m[i][j] < 0 THEN 0 ELSE m[i][j]]]

\* dmat[np.diag_indices(dmat.shape[0])] = 0
ZeroDiag_Skipped(m) == m

ZeroDiag(m) ==
    [i \in DOMAIN m |-> [j \in DOMAIN m[i] |->
        IF i = j THEN 0 ELSE m[i][j]]]

\* dmat[dmat > upper_bound] = upper_bound
CapUpper_Skipped(m, ub) == m

CapUpper(m, ub) ==
    [i \in DOMAIN m |-> [j \in DOMAIN m[i] |->
        IF m[i][j] > ub THEN ub ELSE m[i][j]]]

\* dmat[np.triu_indices_from(dmat)] = dmat.T[np.triu_indices_from(dmat)]
\* The right-hand side is read (and copied) before anything is written:
\* entry (i, j) with i <= j receives the entry (i, j) of the transpose,
\* which is the entry (j, i) of dmat.
Symmetrize_FromUpper(m) ==
    [i \in DOMAIN m |-> [j \in DOMAIN m[i] |->
        IF i >= j THEN Transpose(m)[i][j] ELSE m[i][j]]]

Symmetrize(m) ==
    [i \in DOMAIN m |-> [j \in DOMAIN m[i] |->
        IF i <= j THEN Transpose(m)[i][j] ELSE m[i][j]]]

\* np.testing.assert_allclose(diagonal, 0, atol=1e-10) fails
DiagNotClose(m) == \E i \in DOMAIN m : m[i][i] # 0
\* np.testing.assert_allclose(upper triangle, upper triangle of dmat.T) fails
\* (relative tolerance 1e-7: on halves, two values are close iff equal)
NotSymmetric(m) == \E i, j \in DOMAIN m : i <= j /\ m[i][j] # m[j][i]

Warnings(m) ==
    (IF DiagNotClose(m) THEN {"diag vals should be close to 0"} ELSE {})
    \cup (IF NotSymmetric(m) THEN {"should be approximately symmetric"} ELSE {})

Corrected(m, upper_bound) ==
    Symmetrize(IF upper_bound.kind = "None"
               THEN ZeroDiag(ClampNeg(m))
               ELSE CapUpper(ZeroDiag(ClampNeg(m)), upper_bound.v))

\* Ok([d |-> the corrected matrix, warnings |-> the warnings issued]) or the
\* ValueError
num_correct_dist_mat(dmat, upper_bound) ==
    IF dmat.kind # "ndarray" \/ dmat.ndim # 2
       \/ Shape0(dmat.rows) # Shape1(dmat.rows)
    THEN Raise("ValueError", "dmat must be a 2D (n_samples, n_samples) np array")
    ELSE Ok([d |-> Corrected(dmat.rows, upper_bound),
             warnings |-> Warnings(dmat.rows)])

---------------------------------------------------------------------------
(* SampleDistanceMatrix.__init__.  pd is what the external routine          *)
(* sklearn pairwise_distances returns for x: None when it raises, else an   *)
(* (n_samples, n_samples) array.                                            *)

SampleDistanceMatrix(x, d, metric, sids, fids, pd) ==
    LET sfm == SampleFeatureMatrix(x, sids, fids) IN
    IF ~ sfm.ok THEN sfm
    ELSE IF d.kind = "None" /\ metric.kind = "None"
    THEN Raise("ValueError", "If d is None, metric must be provided.")
    ELSE IF d.kind = "None" /\ metric.kind # "str"
    THEN Raise("ValueError", "metric must be string")
    ELSE IF d.kind = "None" /\ pd.kind = "None"
    THEN Raise("ValueError", "pairwise_distances failed")
    ELSE IF d.kind # "None" /\ ~ d.numeric
    THEN Raise("ValueError", "d must be float.")
    ELSE IF d.kind # "None"
            /\ (d.ndim # 2 \/ Shape0(d.rows) # Shape1(d.rows)
                \/ Shape0(d.rows) # Shape0(sfm.val._x))
    THEN Raise("ValueError", "d should have shape (n_samples, n_samples)")
    ELSE LET dm == IF d.kind = "None" THEN pd ELSE NdArray(d.rows) IN
         Ok([_x |-> sfm.val._x, _sids |-> sfm.val._sids,
             _fids |-> sfm.val._fids,
             _d |-> num_correct_dist_mat(dm, None).val.d,
             _tsne_lut |-> <<>>,
             _metric |-> metric])

---------------------------------------------------------------------------
(* Sorting, as np.sort, np.argsort, np.unique and sorted do on values of    *)
(* one type.                                                                *)

RECURSIVE Sorted(_)
Insert(x, s) ==
    LET k == Cardinality({i \in DOMAIN s : s[i].v <= x.v}) IN
    SubSeq(s, 1, k) \o <<x>> \o SubSeq(s, k + 1, Len(s))
Sorted(s) == IF s = <<>> THEN <<>> ELSE Insert(Head(s), Sorted(Tail(s)))

RECURSIVE SetToSeq(_)
SetToSeq(S) ==
    IF S = {} THEN <<>>
    ELSE LET x == CHOOSE y \in S : TRUE IN <<x>> \o SetToSeq(S \ {x})
\* np.unique(a): the distinct values, ascending
Unique(s) == Sorted(SetToSeq(Range(s)))
Count(s, x) == Cardinality({i \in DOMAIN s : s[i] = x})
\* a[mask]: the entries of a at the positions in keep (the positions where
\* the boolean mask is True), in order
Mask(a, keep) ==
    LET F[i \in 0..Len(a)] ==
          IF i = 0 THEN <<>>
          ELSE IF i \in keep THEN Append(F[i - 1], a[i]) ELSE F[i - 1]
    IN F[Len(a)]
\* np.argsort(a) for distinct values: position k holds the index of the
\* k-th smallest value
Argsort(a) ==
    [k \in 1..Len(a) |->
        CHOOSE i \in DOMAIN a :
            Cardinality({j \in DOMAIN a : a[j].v < a[i].v}) = k - 1]
RECURSIVE Concatenate(_)
Concatenate(ss) ==
    IF ss = <<>> THEN <<>> ELSE Head(ss) \o Concatenate(Tail(ss))
\* list.index(x)
IndexOf(s, x) == CHOOSE i \in DOMAIN s : s[i] = x /\ \A j \in 1..(i - 1) : s[j] # x

---------------------------------------------------------------------------
(* SingleLabelClassifiedSamples *)

is_valid_lab(lab) == lab.t = "str" \/ lab.t = "int"

MsgLabs == "labs must be a homogenous list of int or str"

check_is_valid_labs(labs) ==
    IF labs.kind = "None" THEN Raise("ValueError", "labs cannot be None")
    ELSE IF labs.kind # "list" THEN Raise("ValueError", MsgLabs)
    ELSE IF Len(labs.items) = 0 THEN Raise("ValueError", "labs cannot be empty")
    ELSE IF Cardinality({labs.items[i].t : i \in DOMAIN labs.items}) # 1
    THEN Raise("ValueError", MsgLabs)
    ELSE IF ~ is_valid_lab(labs.items[1]) THEN Raise("ValueError", MsgLabs)
    ELSE Ok(None)

\* sid_lut[uniq_lab] = self._sids[labs == uniq_lab]
SidLut_Reversed(sids, labs) ==
    [l \in Range(labs) |->
        LET b == Mask(sids, {i \in DOMAIN sids : labs[i] = l}) IN
        [k \in 1..Len(b) |-> b[Len(b) + 1 - k]]]

SidLut(sids, labs) ==
    [l \in Range(labs) |-> Mask(sids, {i \in DOMAIN sids : labs[i] = l})]

\* lab_lut[self._sids[i]] = labs[i]
LabLut(sids, labs) ==
    [x \in Range(sids) |-> labs[CHOOSE i \in DOMAIN sids : sids[i] = x]]

\* SingleLabelClassifiedSamples.__init__: Ok(the fields) or the ValueError
SingleLabelClassifiedSamples(x, labs, sids, fids, d, metric, pd) ==
    LET sdm == SampleDistanceMatrix(x, d, metric, sids, fids, pd) IN
    IF ~ sdm.ok THEN sdm
    ELSE IF ~ check_is_valid_labs(labs).ok THEN check_is_valid_labs(labs)
    ELSE IF Len(sdm.val._sids) # Len(labs.items)
    THEN Raise("ValueError", "sids must have the same length as labs")
    ELSE Ok([_x |-> sdm.val._x, _sids |-> sdm.val._sids,
             _fids |-> sdm.val._fids, _d |-> sdm.val._d,
             _tsne_lut |-> sdm.val._tsne_lut, _metric |-> sdm.val._metric,
             _labs |-> labs.items,
             _sid_lut |-> SidLut(sdm.val._sids, labs.items),
             _lab_lut |-> LabLut(sdm.val._sids, labs.items)])

\* labs_to_sids(labs): a tuple holding one tuple of sample ids per label
labs_to_sids(obj, labs) ==
    IF \E i \in DOMAIN labs.items : labs.items[i] \notin DOMAIN obj._sid_lut
    THEN Raise("KeyError", "labs_to_sids")
    ELSE Ok(Tuple([i \in DOMAIN labs.items |->
                     Tuple(obj._sid_lut[labs.items[i]])]))

\* sids_to_labs(sids): an array holding the label of each element of sids
sids_to_labs(obj, sids) ==
    IF \E i \in DOMAIN sids.items : sids.items[i] \notin DOMAIN obj._lab_lut
    THEN Raise("KeyError", "sids_to_labs")
    ELSE Ok([i \in DOMAIN sids.items |-> obj._lab_lut[sids.items[i]]])

\* sort_flat_sids(query_sids, ref_sids) = ref_sids[np.in1d(ref_sids, query_sids)]
sort_flat_sids_NoFilter(query_sids, ref_sids) == ref_sids

sort_flat_sids_Unsorted(query_sids, ref_sids) == query_sids

sort_flat_sids(query_sids, ref_sids) ==
    Mask(ref_sids, {i \in DOMAIN ref_sids : ref_sids[i] \in Range(query_sids)})

\* sep_lab_list = [sep_lab_list[i] for i in min_sid_sorted_sep_lab_ind_list]
ReorderLabs_Skipped(sep_lab_list, ind_list) == sep_lab_list

ReorderLabs(sep_lab_list, ind_list) ==
    [k \in DOMAIN ind_list |-> sep_lab_list[ind_list[k]]]

\* the end of lab_sorted_sids: concatenation, the three assertions, return
LabSortedResult(obj, sep_lab_sid_list, sep_lab_list) ==
    LET lab_sorted_sid_arr == Concatenate(sep_lab_sid_list)
        lab_sorted_lab_arr == Concatenate(sep_lab_list) IN
    IF Sorted(lab_sorted_sid_arr) # Sorted(obj._sids)
    THEN Raise("AssertionError", "sorted sids")
    ELSE IF Sorted(lab_sorted_lab_arr) # Sorted(obj._labs)
    THEN Raise("AssertionError", "sorted labs")
    ELSE IF [k \in DOMAIN lab_sorted_sid_arr |->
               lab_sorted_lab_arr[Argsort(lab_sorted_sid_arr)[k]]]
            # [k \in DOMAIN obj._sids |-> obj._labs[Argsort(obj._sids)[k]]]
    THEN Raise("AssertionError", "sorted (sid, lab) matchings")
    ELSE Ok([sids |-> lab_sorted_sid_arr, labs |-> lab_sorted_lab_arr])

lab_sorted_sids(obj, ref_sid_order) ==
    LET iter_labs == Sorted(SetToSeq(DOMAIN obj._sid_lut))
        sep_lab_sid_list == [k \in DOMAIN iter_labs |-> obj._sid_lut[iter_labs[k]]]
        sep_lab_list ==
            [k \in DOMAIN iter_labs |->
                [i \in 1..Len(sep_lab_sid_list[k]) |-> iter_labs[k]]]
    IN
    IF ref_sid_order.kind = "None"
    THEN LabSortedResult(obj, sep_lab_sid_list, sep_lab_list)
    ELSE IF ~ check_is_valid_sfids(ref_sid_order).ok
    THEN check_is_valid_sfids(ref_sid_order)
    ELSE
      LET ref == ref_sid_order.items
          inner == [k \in DOMAIN sep_lab_sid_list |->
                      sort_flat_sids(sep_lab_sid_list[k], ref)]
      IN
      IF \E k \in DOMAIN inner : inner[k] = <<>>
      THEN Raise("IndexError", "index 0 is out of bounds")
      ELSE
        LET sep_lab_min_sid_list == [k \in DOMAIN inner |-> inner[k][1]]
            sorted_sep_lab_min_sid_list ==
                sort_flat_sids(sep_lab_min_sid_list, ref)
            ind_list ==
                [k \in DOMAIN sorted_sep_lab_min_sid_list |->
                    IndexOf(sep_lab_min_sid_list, sorted_sep_lab_min_sid_list[k])]
        IN
        \* list.index raises ValueError for a value the list does not hold
        IF \E k \in DOMAIN sorted_sep_lab_min_sid_list :
              sorted_sep_lab_min_sid_list[k] \notin Range(sep_lab_min_sid_list)
        THEN Raise("ValueError", "is not in list")
        ELSE LabSortedResult(obj,
                             [k \in DOMAIN ind_list |-> inner[ind_list[k]]],
                             ReorderLabs(sep_lab_list, ind_list))

\* np.unique(a, return_counts=True)[1]
UniqueCounts_Ones(a) == [k \in DOMAIN Unique(a) |-> 1]

UniqueCounts(a) == [k \in DOMAIN Unique(a) |-> Count(a, Unique(a)[k])]

\* cross_labs(q_slc_samples): a dict from each reference label to
\* (count, (query labels, their counts)).  q is [kind |-> "SLCS", obj |-> the
\* fields] or a value of another class.
cross_labs(obj, q) ==
    IF q.kind # "SLCS"
    THEN Raise("TypeError", "Query should be an instance of SingleLabelClassifiedSamples")
    ELSE IF \E i \in DOMAIN q.obj._sids : q.obj._sids[i] \notin DOMAIN obj._lab_lut
    THEN Raise("ValueError", "query sid is not in ref sids.")
    ELSE
      LET ref_labs == [i \in DOMAIN q.obj._sids |-> obj._lab_lut[q.obj._sids[i]]]
          query_labs == q.obj._labs
          OfRef(rl) == Mask(query_labs, {i \in DOMAIN query_labs : ref_labs[i] = rl})
      IN Ok([rl \in Range(ref_labs) |->
                <<Count(ref_labs, rl),
                  <<Unique(OfRef(rl)), UniqueCounts(OfRef(rl))>> >>])

---------------------------------------------------------------------------
(* SampleDistanceMatrix.tsne.  kwargs is the keyword dictionary, a sequence *)
(* of <<name, value>> pairs in insertion order; a string is a sequence of   *)
(* tokens.                                                                  *)

HasKey(kwargs, name) == \E i \in DOMAIN kwargs : kwargs[i][1] = name
GetItem(kwargs, name) ==
    kwargs[CHOOSE i \in DOMAIN kwargs : kwargs[i][1] = name][2]
\* kwargs[name] = value: in place when the key is there, appended otherwise
SetItem(kwargs, name, value) ==
    IF HasKey(kwargs, name)
    THEN [i \in DOMAIN kwargs |->
            IF kwargs[i][1] = name THEN <<name, value>> ELSE kwargs[i]]
    ELSE Append(kwargs, <<name, value>>)

\* str(kwargs)
StrOfDict(kwargs) ==
    <<"{">> \o Concatenate([i \in DOMAIN kwargs |-> kwargs[i]]) \o <<"}">>
\* "{}".format(n) for n >= 0
DigitChars == <<"0", "1", "2", "3", "4", "5", "6", "7", "8", "9">>
RECURSIVE StrOfInt(_)
StrOfInt(n) ==
    IF n < 10 THEN <<DigitChars[n + 1]>>
    ELSE StrOfInt(n \div 10) \o <<DigitChars[(n % 10) + 1]>>

\* str(kwargs) + " stored run {}".format(curr_store_ind)
StoreKey_NoRunIndex(kwargs, curr_store_ind) == StrOfDict(kwargs)

StoreKey(kwargs, curr_store_ind) ==
    StrOfDict(kwargs) \o <<" stored run ">> \o StrOfInt(curr_store_ind)

\* self._tsne_lut[key] = tsne_res
DictSet(lut, key, value) ==
    [k \in DOMAIN lut \cup {key} |-> IF k = key THEN value ELSE lut[k]]

\* tsne(store_res, **kwargs) on obj; ext is what the external t-SNE routine
\* returns (None when it raises).  The result: the object afterwards and
\* what the call returns or raises.
tsne(obj, store_res, kwargs, ext) ==
    IF HasKey(kwargs, "metric")
       /\ GetItem(kwargs, "metric") \notin
            {"precomputed"} \cup (IF obj._metric.kind = "str"
                                  THEN {obj._metric.v} ELSE {})
    THEN [obj |-> obj,
          ret |-> Raise("ValueError", "If you want to calculate t-SNE of a different metric")]
    ELSE IF ext.kind = "None"
    THEN [obj |-> obj, ret |-> Raise("ValueError", "TSNE failed")]
    ELSE IF store_res
    THEN [obj |-> [obj EXCEPT !._tsne_lut =
                     DictSet(obj._tsne_lut,
                             StoreKey(SetItem(kwargs, "metric", "precomputed"),
                                      Cardinality(DOMAIN obj._tsne_lut) + 1),
                             ext)],
          ret |-> Ok(ext)]
    ELSE [obj |-> obj, ret |-> Ok(ext)]

\* the tsne_lut property: a new dict with the same keys and values
tsne_lut(obj) == [k \in DOMAIN obj._tsne_lut |-> obj._tsne_lut[k]]

---------------------------------------------------------------------------
(* The accessors sids, fids, x, d and labs.  What the caller receives is a  *)
(* handle: an array of its own (kind "copy", with its value), or the array  *)
(* a field of the object refers to (kind "field").                          *)

\* self._<field>.copy()
Copy_Alias(obj, field) == [kind |-> "field", of |-> field]

Copy(obj, field) == [kind |-> "copy", of |-> field, val |-> obj[field]]

\* the array a handle denotes
Deref(obj, h) == IF h.kind = "copy" THEN h.val ELSE obj[h.of]

\* an in-place write by the caller into a returned array: its first element
\* (of the first row) is overwritten
Scribble(field, val) ==
    IF field \in {"_x", "_d"} THEN [val EXCEPT ![1][1] = 99]
    ELSE [val EXCEPT ![1] = Id(val[1].t, 99)]

---------------------------------------------------------------------------
(* Inputs of the distance-matrix calls *)

\* the entries of the enumerated n x n matrices: up to 2 x 2 they range
\* over -MaxVal..MaxVal, above over -0.5, 0 and 0.5
Vals(n) == IF n <= 2 THEN (-MaxVal)..MaxVal ELSE (-1)..1
SquareMats(n) == Mats(n, n, Vals(n))
\* [[0, 1, 2], [1, 0, -0.5], [2, 0.5, 0]] in halves
ScenarioC == <<<<0, 2, 4>>, <<2, 0, -1>>, <<4, 1, 0>>>>
ScenarioC_Spec == <<<<0, 2, 4>>, <<2, 0, 0>>, <<4, 0, 0>>>>
ScenarioC_Code == <<<<0, 2, 4>>, <<2, 0, 1>>, <<4, 1, 0>>>>

\* arguments num_correct_dist_mat rejects
BadDmats ==
    {NdArray(<<<<0, 1>>>>),                        \* 1 x 2, not square
     ArrLike("ndarray", TRUE, 1, <<<<0, 1>>>>),    \* 1-D
     ArrLike("list", TRUE, 2, <<<<0, 1>>, <<1, 0>>>>)}  \* not an ndarray
UpperBounds == {None} \cup {Float(v) : v \in (-1)..(MaxVal + 1)}

\* feature matrices with n rows and one column
XOfRows(n) == ArrLike("list", TRUE, 2, [i \in 1..n |-> <<i>>])
\* distance arguments the constructor rejects whatever x is
BadDs == {ArrLike("list", FALSE, 2, <<>>), ArrLike("list", TRUE, 1, <<>>),
          ArrLike("list", TRUE, 2, <<<<0, 1>>>>)}
Metrics == {None, Str("euclidean"), [kind |-> "int", v |-> 1]}

---------------------------------------------------------------------------
(* The specification of the distance-matrix calls: the static call          *)
(* num_correct_dist_mat(dmat, upper_bound) and the construction of a        *)
(* SampleDistanceMatrix from supplied or computed distances.  Each action   *)
(* is one call, with its arguments drawn from the sets above.               *)

InitIdle ==
    /\ self = NoObj
    /\ call = NoCall
    /\ ret = Ok(None)
    /\ held = <<>>
    /\ pc = "idle"

RunNumCorrect(dmat, upper_bound) ==
    /\ call' = [op |-> "num_correct_dist_mat", dmat |-> dmat,
                upper_bound |-> upper_bound]
    /\ ret' = num_correct_dist_mat(dmat, upper_bound)
    /\ pc' = "done"
    /\ UNCHANGED <<self, held>>

NumCorrect ==
    /\ pc = "idle"
    /\ \E upper_bound \in UpperBounds :
        \/ \E n \in 0..MaxN : \E m \in SquareMats(n) :
             RunNumCorrect(NdArray(m), upper_bound)
        \/ RunNumCorrect(NdArray(ScenarioC), upper_bound)
        \/ \E dmat \in BadDmats : RunNumCorrect(dmat, upper_bound)

\* pd: what the external pairwise_distances returns, when it is called
RunConstructSDM(x, d, metric, pd) ==
    /\ call' = [op |-> "SampleDistanceMatrix", x |-> x, d |-> d,
                metric |-> metric, pd |-> pd]
    /\ LET r == SampleDistanceMatrix(x, d, metric, None, None, pd) IN
        /\ self' = IF r.ok THEN r.val ELSE NoObj
        /\ ret' = IF r.ok THEN Ok(None) ELSE r
    /\ pc' = "done"
    /\ UNCHANGED held

ConstructSDM ==
    /\ pc = "idle"
    /\ \E n \in 1..MaxN :
        \/ \E k \in 1..MaxN : \E m \in SquareMats(k) : \E metric \in Metrics :
             RunConstructSDM(XOfRows(n), ArrLike("list", TRUE, 2, m), metric, None)
        \/ \E d \in BadDs :
             RunConstructSDM(XOfRows(n), d, None, None)
        \/ \E metric \in Metrics \ {Str("euclidean")} :
             RunConstructSDM(XOfRows(n), None, metric, None)
        \/ RunConstructSDM(XOfRows(n), None, Str("euclidean"), None)
        \/ \E m \in SquareMats(n) :
             RunConstructSDM(XOfRows(n), None, Str("euclidean"), NdArray(m))

NextCorrect == NumCorrect \/ ConstructSDM

SpecCorrect == InitIdle /\ [][NextCorrect]_vars

---------------------------------------------------------------------------
(* Properties of the distance-matrix calls *)

Done(op) == pc = "done" /\ call.op = op
IsSquare2D(a) ==
    a.kind = "ndarray" /\ a.ndim = 2 /\ Shape0(a.rows) = Shape1(a.rows)

ZeroDiagonal(m) == \A i \in DOMAIN m : m[i][i] = 0
NonNegative(m) == \A i \in DOMAIN m : \A j \in DOMAIN m[i] : m[i][j] >= 0
EqualsTranspose(m) == m = Transpose(m)
IsDistMat(m) == ZeroDiagonal(m) /\ NonNegative(m) /\ EqualsTranspose(m)

\* the repaired value of one entry: negative clamped to 0, then capped
Repaired(v, upper_bound) ==
    LET c == IF v < 0 THEN 0 ELSE v IN
    IF upper_bound.kind # "None" /\ c > upper_bound.v THEN upper_bound.v ELSE c

\* C1: for every square 2-D matrix and no upper bound, num_correct_dist_mat
\* returns a matrix with an all-zero diagonal, no negative entry, and equal
\* to its own transpose; the matrix stored by every successfully
\* constructed SampleDistanceMatrix (supplied or computed distances) has
\* the same three properties.
C1_CorrectedIsDistMat ==
    /\ Done("num_correct_dist_mat") /\ IsSquare2D(call.dmat)
       /\ call.upper_bound = None
         => ret.ok /\ IsDistMat(ret.val.d)
    /\ Done("SampleDistanceMatrix") /\ ret.ok
         => self # NoObj /\ IsDistMat(self._d)

\* a 2 x 2 input with a negative entry, a non-zero diagonal and asymmetry
C1_Witness ==
    /\ Done("num_correct_dist_mat") /\ IsSquare2D(call.dmat)
    /\ call.upper_bound = None
    /\ Shape0(call.dmat.rows) = 2
    /\ call.dmat.rows[1][1] # 0
    /\ call.dmat.rows[1][2] < 0
    /\ call.dmat.rows[2][1] > 0
    /\ ret.ok /\ IsDistMat(ret.val.d)

\* C2 as stated: the upper triangle is authoritative: for i < j both
\* result[i][j] and result[j][i] are the repaired input entry M[i][j], and
\* [[0,1,2],[1,0,-0.5],[2,0.5,0]] is corrected to [[0,1,2],[1,0,0],[2,0,0]].
C2_UpperAuthoritative ==
    Done("num_correct_dist_mat") /\ IsSquare2D(call.dmat) =>
        /\ ret.ok
        /\ \A i, j \in DOMAIN call.dmat.rows : i < j =>
             /\ ret.val.d[i][j] = Repaired(call.dmat.rows[i][j], call.upper_bound)
             /\ ret.val.d[j][i] = Repaired(call.dmat.rows[i][j], call.upper_bound)
        /\ call.dmat.rows = ScenarioC /\ call.upper_bound = None
             => ret.val.d = ScenarioC_Spec

\* C2 amended: the lower triangle is authoritative: for i < j both
\* result[i][j] and result[j][i] are the repaired input entry M[j][i] (so
\* the upper-triangle entry M[i][j] has no influence), and
\* [[0,1,2],[1,0,-0.5],[2,0.5,0]] is corrected to [[0,1,2],[1,0,0.5],[2,0.5,0]].
C2_LowerAuthoritative ==
    Done("num_correct_dist_mat") /\ IsSquare2D(call.dmat) =>
        /\ ret.ok
        /\ \A i, j \in DOMAIN call.dmat.rows : i < j =>
             /\ ret.val.d[i][j] = Repaired(call.dmat.rows[j][i], call.upper_bound)
             /\ ret.val.d[j][i] = Repaired(call.dmat.rows[j][i], call.upper_bound)
        /\ call.dmat.rows = ScenarioC /\ call.upper_bound = None
             => ret.val.d = ScenarioC_Code

C2_Witness ==
    /\ Done("num_correct_dist_mat")
    /\ call.dmat = NdArray(ScenarioC) /\ call.upper_bound = None
    /\ ret.ok /\ ret.val.d = ScenarioC_Code

\* C3 as stated: for every upper bound b, of any sign, every entry of the
\* corrected matrix lies in [0, b].
C3_WithinAnyBound ==
    Done("num_correct_dist_mat") /\ IsSquare2D(call.dmat)
    /\ call.upper_bound # None =>
        /\ ret.ok
        /\ \A i \in DOMAIN ret.val.d : \A j \in DOMAIN ret.val.d[i] :
             0 <= ret.val.d[i][j] /\ ret.val.d[i][j] <= call.upper_bound.v

\* C3 amended: for every upper bound b >= 0, every entry of the corrected
\* matrix, diagonal included, lies in [0, b].
C3_WithinNonNegBound ==
    Done("num_correct_dist_mat") /\ IsSquare2D(call.dmat)
    /\ call.upper_bound # None /\ call.upper_bound.v >= 0 =>
        /\ ret.ok
        /\ \A i \in DOMAIN ret.val.d : \A j \in DOMAIN ret.val.d[i] :
             0 <= ret.val.d[i][j] /\ ret.val.d[i][j] <= call.upper_bound.v

\* a bound b >= 0 given and a lower-triangle input entry above it
C3_Witness ==
    /\ Done("num_correct_dist_mat") /\ IsSquare2D(call.dmat)
    /\ call.upper_bound # None /\ call.upper_bound.v >= 0
    /\ \E i, j \in DOMAIN call.dmat.rows :
         i > j /\ call.dmat.rows[i][j] > call.upper_bound.v
                /\ ret.val.d[i][j] = call.upper_bound.v

---------------------------------------------------------------------------
(* The specification of SampleFeatureMatrix(x, sids, fids): the action is   *)
(* one construction, with its arguments drawn from the sets below.          *)

\* arguments the constructor rejects for what x is
BadXs ==
    {None,
     ArrLike("list", FALSE, 2, <<>>),          \* not convertible to float64
     ArrLike("list", TRUE, 1, <<>>),           \* 1-D
     ArrLike("list", TRUE, 2, << <<>> >>)}     \* shape (1, 0): no element
ZeroMat(r, c) == ArrLike("list", TRUE, 2, [i \in 1..r |-> [j \in 1..c |-> 0]])

\* two ints, a string and a float (a type that is not a valid identifier)
IdUniverse == {Id("int", 0), Id("int", 1), Id("str", 0), Id("float", 0)}
SfidInputs(maxlen) ==
    {None, Tuple(<<Id("int", 0)>>), Tuple(<<Id("int", 0), Id("int", 1)>>)}
    \cup {List(s) : s \in SeqsUpTo(IdUniverse, maxlen)}

RunConstructSFM(x, sids, fids) ==
    /\ call' = [op |-> "SampleFeatureMatrix", x |-> x, sids |-> sids,
                fids |-> fids]
    /\ LET r == SampleFeatureMatrix(x, sids, fids) IN
        /\ self' = IF r.ok THEN r.val ELSE NoObj
        /\ ret' = IF r.ok THEN Ok(None) ELSE r
    /\ pc' = "done"
    /\ UNCHANGED held

ConstructSFM ==
    /\ pc = "idle"
    /\ \E sids \in SfidInputs(MaxIdLen), fids \in SfidInputs(MaxIdLen) :
        \/ \E r \in 1..MaxRows, c \in 1..MaxCols :
             RunConstructSFM(ZeroMat(r, c), sids, fids)
        \/ \E x \in BadXs : RunConstructSFM(x, sids, fids)

NextSFM == ConstructSFM

SpecSFM == InitIdle /\ [][NextSFM]_vars

ValidMatrix(x) ==
    x.kind # "None" /\ x.numeric /\ x.ndim = 2 /\ Size(x.rows) > 0
Supplied(ids) == ids.kind # "None"
\* a supplied collection whose length differs from the matrix dimension n
Mismatched(ids, n) == Supplied(ids) /\ Len(ids.items) # n
LengthMismatch ==
    \/ Mismatched(call.sids, Shape0(call.x.rows))
    \/ Mismatched(call.fids, Shape1(call.x.rows))
\* the error the spec calls ShapeMismatch: the ValueError of the length check
ShapeMismatch(r) == ~ r.ok /\ r.exc = "ValueError" /\ r.msg = MsgShape

\* C10 as stated: constructing from a valid matrix with a supplied
\* sample_ids or feature_ids collection of mismatched length always fails,
\* and the error is ShapeMismatch, for every such collection.
C10_MismatchIsShapeMismatch ==
    Done("SampleFeatureMatrix") /\ ValidMatrix(call.x) /\ LengthMismatch
        => ShapeMismatch(ret)

\* C10 amended: such a construction always fails; the error is ShapeMismatch
\* when every supplied collection passes identifier validation (which runs
\* before the length check).
C10_MismatchFails ==
    Done("SampleFeatureMatrix") /\ ValidMatrix(call.x) /\ LengthMismatch
        => /\ ~ ret.ok /\ self = NoObj
           /\ (Supplied(call.sids) => check_is_valid_sfids(call.sids).ok)
              /\ (Supplied(call.fids) => check_is_valid_sfids(call.fids).ok)
                => ShapeMismatch(ret)

\* valid sample ids of the right length, valid feature ids of a wrong one
C10_Witness ==
    /\ Done("SampleFeatureMatrix") /\ ValidMatrix(call.x)
    /\ Supplied(call.sids) /\ ~ Mismatched(call.sids, Shape0(call.x.rows))
    /\ check_is_valid_sfids(call.sids).ok
    /\ Mismatched(call.fids, Shape1(call.x.rows))
    /\ check_is_valid_sfids(call.fids).ok
    /\ ShapeMismatch(ret)

---------------------------------------------------------------------------
(* Labeled indexes: the initial state is a constructed                      *)
(* SingleLabelClassifiedSamples, each action one call on it.                *)

InjSeqs(S, n) ==
    {q \in [1..n -> S] : \A i, j \in 1..n : q[i] = q[j] => i = j}
SampleIds(n) == {Id("int", v) : v \in 0..(n - 1)}
Labels(n) == {Id("str", v) : v \in 0..(n - 1)}
ZeroDist(n) == NdArray([i \in 1..n |-> [j \in 1..n |-> 0]])

\* the index with the given sample ids (None: the default) and labels
IndexOf_(sids, labs) ==
    SingleLabelClassifiedSamples(XOfRows(Len(labs)), List(labs), sids, None,
                                 None, Str("correlation"), ZeroDist(Len(labs)))

InitLab ==
    /\ \E n \in 1..MaxSamples :
       \E sids \in InjSeqs(SampleIds(MaxSamples), n), labs \in [1..n -> Labels(MaxLabels)] :
          self = IndexOf_(List(sids), labs).val
    /\ call = NoCall
    /\ ret = Ok(None)
    /\ held = <<>>
    /\ pc = "idle"

\* reference orders: none, invalid ones, and every duplicate-free list over
\* the sample ids and one foreign id
RefInputs ==
    {None, List(<<>>), List(<<Id("int", 0), Id("int", 0)>>),
     List(<<Id("float", 0)>>), Tuple(<<Id("int", 0)>>)}
    \cup UNION {{List(q) : q \in InjSeqs(SampleIds(MaxSamples + 1), n)} :
                  n \in 1..(MaxSamples + 1)}

LabSortedSids ==
    /\ pc = "idle"
    /\ \E ref_sid_order \in RefInputs :
        /\ call' = [op |-> "lab_sorted_sids", ref_sid_order |-> ref_sid_order]
        /\ ret' = lab_sorted_sids(self, ref_sid_order)
    /\ pc' = "done"
    /\ UNCHANGED <<self, held>>

\* label lists of one or two labels, one label possibly unobserved
LabsToSids ==
    /\ pc = "idle"
    /\ \E n \in 1..2 : \E labs \in [1..n -> Labels(MaxLabels + 1)] :
        /\ call' = [op |-> "labs_to_sids", labs |-> List(labs)]
        /\ ret' = labs_to_sids(self, List(labs))
    /\ pc' = "done"
    /\ UNCHANGED <<self, held>>

\* sample id lists of one or two ids, one id possibly foreign
SidsToLabs ==
    /\ pc = "idle"
    /\ \E n \in 1..2 : \E sids \in [1..n -> SampleIds(MaxSamples + 1)] :
        /\ call' = [op |-> "sids_to_labs", sids |-> List(sids), of |-> NoCall,
                    arg |-> "list"]
        /\ ret' = sids_to_labs(self, List(sids))
    /\ pc' = "done"
    /\ UNCHANGED <<self, held>>

\* sids_to_labs(r) and sids_to_labs(r[0]) for the result r of the preceding
\* labs_to_sids call
SidsToLabsOfResult ==
    /\ pc = "done"
    /\ call.op = "labs_to_sids"
    /\ ret.ok
    /\ \/ /\ call' = [op |-> "sids_to_labs", sids |-> ret.val, of |-> call,
                      arg |-> "result"]
          /\ ret' = sids_to_labs(self, ret.val)
       \/ /\ call' = [op |-> "sids_to_labs", sids |-> ret.val.items[1],
                      of |-> call, arg |-> "result[0]"]
          /\ ret' = sids_to_labs(self, ret.val.items[1])
    /\ pc' = "done2"
    /\ UNCHANGED <<self, held>>

NextLab == LabSortedSids \/ LabsToSids \/ SidsToLabs \/ SidsToLabsOfResult

SpecLab == InitLab /\ [][NextLab]_vars

---------------------------------------------------------------------------
(* Reference orders with foreign ids: lab_sorted_sids(R) for a valid R     *)
(* holding every sample id of the index and ids the index does not have,   *)
(* followed by lab_sorted_sids(R') on the same index, R' being R without   *)
(* the foreign ids.                                                        *)

\* an index of at most MaxRefSamples samples
InitRef ==
    /\ \E n \in 1..MaxRefSamples :
       \E sids \in InjSeqs(SampleIds(MaxRefSamples), n),
          labs \in [1..n -> Labels(MaxLabels)] :
          self = IndexOf_(List(sids), labs).val
    /\ call = NoCall
    /\ ret = Ok(None)
    /\ held = <<>>
    /\ pc = "idle"

\* the duplicate-free lists of ids that hold every sample id of obj and at
\* least one of MaxExtra other ids
ExtraRefs(obj) ==
    UNION {{q \in InjSeqs(SampleIds(MaxRefSamples + MaxExtra), m) :
               Range(obj._sids) \subseteq Range(q)} :
             m \in (Len(obj._sids) + 1)..(Len(obj._sids) + MaxExtra)}

\* ref without the ids that are not sample ids of obj, the order kept
WithoutForeign(obj, ref) ==
    Mask(ref, {i \in DOMAIN ref : ref[i] \in Range(obj._sids)})

LabSortedSidsExtra ==
    /\ pc = "idle"
    /\ \E R \in ExtraRefs(self) :
        /\ call' = [op |-> "lab_sorted_sids", ref_sid_order |-> List(R)]
        /\ ret' = lab_sorted_sids(self, List(R))
    /\ pc' = "done"
    /\ UNCHANGED <<self, held>>

\* the second call, on the same index; the first call and its result are
\* kept in call.of and call.of_ret
LabSortedSidsKept ==
    /\ pc = "done"
    /\ call.op = "lab_sorted_sids"
    /\ \E R1 \in {WithoutForeign(self, call.ref_sid_order.items)} :
        /\ call' = [op |-> "lab_sorted_sids", ref_sid_order |-> List(R1),
                    of |-> call, of_ret |-> ret]
        /\ ret' = lab_sorted_sids(self, List(R1))
    /\ pc' = "done2"
    /\ UNCHANGED <<self, held>>

NextRef == LabSortedSidsExtra \/ LabSortedSidsKept

SpecRef == InitRef /\ [][NextRef]_vars

---------------------------------------------------------------------------
(* Cross-tabulation: the initial state is a constructed index with the      *)
(* default sample ids, the action one cross_labs call with another index.   *)

InitCross ==
    /\ \E n \in 1..MaxSamples : \E labs \in [1..n -> Labels(MaxLabels)] :
          self = IndexOf_(None, labs).val
    /\ call = NoCall
    /\ ret = Ok(None)
    /\ held = <<>>
    /\ pc = "idle"

\* the labels of the query index: X and Y
QueryLabels == {Id("str", 23), Id("str", 24)}

CrossLabs ==
    /\ pc = "idle"
    /\ \/ \E n \in 1..MaxSamples :
          \E sids \in InjSeqs(SampleIds(MaxSamples + 1), n),
             labs \in [1..n -> QueryLabels] :
          \E q \in {[kind |-> "SLCS", obj |-> IndexOf_(List(sids), labs).val]} :
            /\ call' = [op |-> "cross_labs", q_slc_samples |-> q]
            /\ ret' = cross_labs(self, q)
       \/ /\ call' = [op |-> "cross_labs", q_slc_samples |-> None]
          /\ ret' = cross_labs(self, None)
    /\ pc' = "done"
    /\ UNCHANGED <<self, held>>

NextCross == CrossLabs

SpecCross == InitCross /\ [][NextCross]_vars

---------------------------------------------------------------------------
(* Properties of the labeled indexes *)

IsPermOf(a, b) ==
    /\ Len(a) = Len(b)
    /\ \A x \in Range(a) \cup Range(b) : Count(a, x) = Count(b, x)
\* the label the index gives sample id x, read off its sids and labs
LabelOf(x) == self._labs[CHOOSE i \in DOMAIN self._sids : self._sids[i] = x]
\* the sample ids labeled l, in the order of the index
SamplesOf(l) == Mask(self._sids, {i \in DOMAIN self._sids : self._labs[i] = l})
Pos(q, x) == CHOOSE i \in DOMAIN q : q[i] = x

RefOmittedOrPerm ==
    \/ call.ref_sid_order = None
    \/ /\ call.ref_sid_order.kind = "list"
       /\ IsPermOf(call.ref_sid_order.items, self._sids)
RefIsPerm ==
    /\ call.ref_sid_order.kind = "list"
    /\ IsPermOf(call.ref_sid_order.items, self._sids)

\* C4: lab_sorted_sids with the reference order omitted or a permutation of
\* the sample ids raises none of its three assertions, and returns sample
\* ids that are a permutation of the index's, labels that are a permutation
\* of the index's, each returned sample id paired with its own label.
C4_SortedKeepsPairs ==
    Done("lab_sorted_sids") /\ RefOmittedOrPerm =>
        /\ ret.ok
        /\ IsPermOf(ret.val.sids, self._sids)
        /\ IsPermOf(ret.val.labs, self._labs)
        /\ Len(ret.val.labs) = Len(ret.val.sids)
        /\ \A k \in DOMAIN ret.val.sids :
             ret.val.labs[k] = LabelOf(ret.val.sids[k])

\* a permutation that puts the block of a greater label first
C4_Witness ==
    /\ Done("lab_sorted_sids") /\ RefIsPerm
    /\ ret.ok
    /\ Len(ret.val.labs) = 3
    /\ ret.val.labs[1].v > ret.val.labs[3].v
    /\ ret.val.labs[1] = LabelOf(ret.val.sids[1])

\* samples s1, s2, s3 (0, 1, 2) with labels a, b, a and the reference order
\* s3, s2, s1
ScenarioB ==
    /\ self._sids = <<Id("int", 0), Id("int", 1), Id("int", 2)>>
    /\ self._labs = <<Id("str", 0), Id("str", 1), Id("str", 0)>>
    /\ call.ref_sid_order = List(<<Id("int", 2), Id("int", 1), Id("int", 0)>>)
ScenarioB_Result ==
    [sids |-> <<Id("int", 2), Id("int", 0), Id("int", 1)>>,
     labs |-> <<Id("str", 0), Id("str", 0), Id("str", 1)>>]

\* C5: with a permutation as reference order, the samples of a label are
\* contiguous in the output, ordered inside their block as in the reference
\* order, and the blocks are ordered by the reference position of their
\* first sample; the first output sample id is the first of the reference
\* order; scenario B gives [s3, s1, s2] with labels [a, a, b].
C5_BlocksFollowReference ==
    Done("lab_sorted_sids") /\ RefIsPerm =>
      /\ ret.ok
      /\ LET out == ret.val
             ref == call.ref_sid_order.items
             First(l) == out.sids[CHOOSE i \in DOMAIN out.labs :
                            out.labs[i] = l /\ \A j \in 1..(i - 1) : out.labs[j] # l]
         IN
         /\ \A i, j, k \in DOMAIN out.labs :
              i < j /\ j < k /\ out.labs[i] = out.labs[k]
                => out.labs[j] = out.labs[i]
         /\ \A i, j \in DOMAIN out.labs :
              i < j /\ out.labs[i] = out.labs[j]
                => Pos(ref, out.sids[i]) < Pos(ref, out.sids[j])
         /\ \A i, j \in DOMAIN out.labs :
              i < j /\ out.labs[i] # out.labs[j]
                => Pos(ref, First(out.labs[i])) < Pos(ref, First(out.labs[j]))
         /\ out.sids[1] = ref[1]
         /\ ScenarioB => out = ScenarioB_Result

C5_Witness ==
    Done("lab_sorted_sids") /\ ScenarioB /\ ret = Ok(ScenarioB_Result)

RECURSIVE SumSeq(_)
SumSeq(q) == IF q = <<>> THEN 0 ELSE Head(q) + SumSeq(Tail(q))

\* the positions of the query index whose sample this index labels l
QueryPosOf(l) ==
    {i \in DOMAIN call.q_slc_samples.obj._sids :
        LabelOf(call.q_slc_samples.obj._sids[i]) = l}
QueryCovered ==
    /\ call.q_slc_samples.kind = "SLCS"
    /\ Range(call.q_slc_samples.obj._sids) \subseteq Range(self._sids)

\* reference {s1: A, s2: A, s3: B} (default ids 0, 1, 2) and query
\* {s1: X, s2: Y, s3: X}
ScenarioCross ==
    /\ self._sids = <<Id("int", 0), Id("int", 1), Id("int", 2)>>
    /\ self._labs = <<Id("str", 0), Id("str", 0), Id("str", 1)>>
    /\ call.q_slc_samples.kind = "SLCS"
    /\ call.q_slc_samples.obj._sids = <<Id("int", 0), Id("int", 1), Id("int", 2)>>
    /\ call.q_slc_samples.obj._labs = <<Id("str", 23), Id("str", 24), Id("str", 23)>>
ScenarioCross_Result ==
    (Id("str", 0) :> <<2, <<<<Id("str", 23), Id("str", 24)>>, <<1, 1>>>> >>)
    @@ (Id("str", 1) :> <<1, <<<<Id("str", 23)>>, <<1>>>> >>)

\* C6: when every sample id of the query index is in this index, cross_labs
\* returns a mapping whose keys are the labels this index gives the query's
\* sample ids; under a key L the count is the number of query sample ids
\* labeled L here, the distribution lists each query label of those samples
\* once, with its positive number of occurrences among them, and these
\* numbers sum to the count; the example gives A -> (2, {X: 1, Y: 1}) and
\* B -> (1, {X: 1}).
C6_CrossTabulation ==
    Done("cross_labs") /\ QueryCovered =>
      /\ ret.ok
      /\ DOMAIN ret.val =
           {LabelOf(call.q_slc_samples.obj._sids[i]) :
              i \in DOMAIN call.q_slc_samples.obj._sids}
      /\ \A l \in DOMAIN ret.val :
           LET qlabs == ret.val[l][2][1]
               qcnts == ret.val[l][2][2]
           IN
           /\ ret.val[l][1] = Cardinality(QueryPosOf(l))
           /\ Len(qlabs) = Len(qcnts)
           /\ \A i, j \in DOMAIN qlabs : qlabs[i] = qlabs[j] => i = j
           /\ Range(qlabs) = {call.q_slc_samples.obj._labs[i] : i \in QueryPosOf(l)}
           /\ \A k \in DOMAIN qlabs :
                /\ qcnts[k] > 0
                /\ qcnts[k] = Cardinality({i \in QueryPosOf(l) :
                                call.q_slc_samples.obj._labs[i] = qlabs[k]})
           /\ SumSeq(qcnts) = ret.val[l][1]
      /\ ScenarioCross => ret.val = ScenarioCross_Result

C6_Witness ==
    Done("cross_labs") /\ ScenarioCross /\ ret = Ok(ScenarioCross_Result)

\* the call labs_to_sids([L]) for a label L of the index
SingleObserved(c) ==
    /\ c.op = "labs_to_sids"
    /\ Len(c.labs.items) = 1
    /\ c.labs.items[1] \in Range(self._labs)

\* C8 as stated: labs_to_sids([L]) returns the sample ids labeled L in
\* their original order, and sids_to_labs applied to that result returns as
\* many labels, all L.
C8_RoundTrip ==
    /\ pc = "done" /\ SingleObserved(call) =>
         /\ ret.ok
         /\ ret.val.items[1].items = SamplesOf(call.labs.items[1])
    /\ pc = "done2" /\ SingleObserved(call.of) /\ call.arg = "result" =>
         /\ ret.ok
         /\ Len(ret.val) = Len(SamplesOf(call.of.labs.items[1]))
         /\ \A k \in DOMAIN ret.val : ret.val[k] = call.of.labs.items[1]

\* C8 amended: labs_to_sids([L]) returns a tuple of one element, the tuple
\* of the sample ids labeled L in their original order; sids_to_labs applied
\* to that element returns as many labels, all L; applied to the whole
\* (nested) result it raises KeyError.
C8_RoundTripOfElement ==
    /\ pc = "done" /\ SingleObserved(call) =>
         /\ ret.ok
         /\ ret.val.kind = "tuple" /\ Len(ret.val.items) = 1
         /\ ret.val.items[1] = Tuple(SamplesOf(call.labs.items[1]))
    /\ pc = "done2" /\ SingleObserved(call.of) /\ call.arg = "result[0]" =>
         /\ ret.ok
         /\ Len(ret.val) = Len(SamplesOf(call.of.labs.items[1]))
         /\ \A k \in DOMAIN ret.val : ret.val[k] = call.of.labs.items[1]
    /\ pc = "done2" /\ SingleObserved(call.of) /\ call.arg = "result" =>
         ~ ret.ok /\ ret.exc = "KeyError"

\* a label carried by two samples that are not in ascending id order
C8_Witness ==
    /\ pc = "done2" /\ SingleObserved(call.of) /\ call.arg = "result[0]"
    /\ ret.ok /\ Len(ret.val) = 2
    /\ call.sids.items[1].v > call.sids.items[2].v

---------------------------------------------------------------------------
(* The embedding cache: the initial state is a constructed index (metric    *)
(* "correlation"), each action one tsne call or one read of tsne_lut.       *)

InitTsne ==
    /\ \E labs \in [1..2 -> Labels(MaxLabels)] : self = IndexOf_(None, labs).val
    /\ call = NoCall
    /\ ret = Ok(None)
    /\ held = <<>>
    /\ pc = "idle"

KwargsInputs ==
    {<<>>,
     <<<<"metric", "precomputed">>>>,
     <<<<"metric", "correlation">>>>,
     <<<<"metric", "euclidean">>>>,
     <<<<"perplexity", "5">>>>,
     <<<<"metric", "correlation">>, <<"perplexity", "5">>>>}
\* two different embeddings the external routine may return, or its failure
Embeddings == {[kind |-> "embedding", v |-> 1], [kind |-> "embedding", v |-> 2]}

Tsne ==
    /\ Cardinality(DOMAIN self._tsne_lut) < MaxRuns
    /\ \E store_res \in BOOLEAN, kwargs \in KwargsInputs,
          ext \in Embeddings \cup {None} :
        \E r \in {tsne(self, store_res, kwargs, ext)} :
          /\ call' = [op |-> "tsne", store_res |-> store_res, kwargs |-> kwargs]
          /\ self' = r.obj
          /\ ret' = r.ret
    /\ UNCHANGED <<held, pc>>

TsneLut ==
    /\ call' = [op |-> "tsne_lut"]
    /\ ret' = Ok(tsne_lut(self))
    /\ UNCHANGED <<self, held, pc>>

NextTsne == Tsne \/ TsneLut

SpecTsne == InitTsne /\ [][NextTsne]_vars

\* the run index a key ends with
RunIndexOf(key) ==
    CHOOSE n \in 1..(MaxRuns + 1) :
        /\ Len(key) > Len(StrOfInt(n))
        /\ SubSeq(key, Len(key) - Len(StrOfInt(n)) + 1, Len(key)) = StrOfInt(n)
        /\ key[Len(key) - Len(StrOfInt(n))] = " stored run "
RunIndicesDense ==
    /\ \A k \in DOMAIN self._tsne_lut : \E n \in 1..MaxRuns :
         k = SubSeq(k, 1, Len(k) - Len(StrOfInt(n)) - 1)
               \o <<" stored run ">> \o StrOfInt(n)
    /\ \A n \in 1..Cardinality(DOMAIN self._tsne_lut) :
         Cardinality({k \in DOMAIN self._tsne_lut : RunIndexOf(k) = n}) = 1

\* a tsne call that returned with store_res true
StoredStep == call'.op = "tsne" /\ ret'.ok /\ call'.store_res
\* every entry of the cache before the step is in the cache after it
EntriesKept ==
    /\ DOMAIN self._tsne_lut \subseteq DOMAIN self'._tsne_lut
    /\ \A k \in DOMAIN self._tsne_lut : self'._tsne_lut[k] = self._tsne_lut[k]

\* C7: over any sequence of tsne calls the cache is append-only: a call that
\* returns with store_res true adds exactly one key that was not there,
\* every earlier key stays with its result, and the other calls (store_res
\* false, or raising) leave the cache unchanged; the run indices of the keys
\* are 1..size, each used once.
C7_CacheAppendOnly ==
    /\ [][/\ EntriesKept
          /\ StoredStep =>
               /\ Cardinality(DOMAIN self'._tsne_lut)
                    = Cardinality(DOMAIN self._tsne_lut) + 1
               /\ self'._tsne_lut[CHOOSE k \in DOMAIN self'._tsne_lut :
                                     k \notin DOMAIN self._tsne_lut] = ret'.val
          /\ ~ StoredStep => self'._tsne_lut = self._tsne_lut]_vars
    /\ []RunIndicesDense

\* the same parameter set stored twice, and then a call that raised
C7_Witness ==
    /\ call.op = "tsne" /\ ~ ret.ok
    /\ \E k1, k2 \in DOMAIN self._tsne_lut :
         /\ k1 # k2
         /\ SubSeq(k1, 1, Len(k1) - 1) = SubSeq(k2, 1, Len(k2) - 1)

---------------------------------------------------------------------------
(* Accessors and caller mutations: the initial state is a constructed       *)
(* index; the caller reads through the accessors and the lookups, keeps up  *)
(* to MaxHeld of the returned arrays and writes into them.                  *)

InitAcc ==
    /\ \E n \in 1..2 : \E labs \in [1..n -> Labels(MaxLabels)] :
          self = IndexOf_(None, labs).val
    /\ call = NoCall
    /\ ret = Ok(None)
    /\ held = <<>>
    /\ pc = "idle"

\* the caller keeps the returned array while it has room for it
Keep(h) == IF Len(held) < MaxHeld THEN Append(held, h) ELSE held

Access(name, field) ==
    /\ call' = [op |-> name]
    /\ ret' = Ok(Deref(self, Copy(self, field)))
    /\ held' = Keep(Copy(self, field))
    /\ UNCHANGED <<self, pc>>

GetSids == Access("sids", "_sids")
GetFids == Access("fids", "_fids")
GetX == Access("x", "_x")
GetD == Access("d", "_d")
GetLabs == Access("labs", "_labs")

CallerMutates ==
    \E i \in DOMAIN held :
        /\ call' = [op |-> "caller mutation", handle |-> i]
        /\ ret' = Ok(None)
        /\ IF held[i].kind = "copy"
           THEN /\ held' = [held EXCEPT ![i].val = Scribble(held[i].of, @)]
                /\ self' = self
           ELSE /\ self' = [self EXCEPT ![held[i].of] = Scribble(held[i].of, @)]
                /\ held' = held
        /\ UNCHANGED pc

LookupLabs ==
    /\ \E l \in Labels(MaxLabels) :
        /\ call' = [op |-> "labs_to_sids", labs |-> List(<<l>>)]
        /\ ret' = labs_to_sids(self, List(<<l>>))
    /\ UNCHANGED <<self, held, pc>>

LookupSids ==
    /\ \E x \in SampleIds(2) :
        /\ call' = [op |-> "sids_to_labs", sids |-> List(<<x>>), of |-> NoCall,
                    arg |-> "list"]
        /\ ret' = sids_to_labs(self, List(<<x>>))
    /\ UNCHANGED <<self, held, pc>>

NextAcc ==
    \/ GetSids \/ GetFids \/ GetX \/ GetD \/ GetLabs
    \/ CallerMutates \/ LookupLabs \/ LookupSids

SpecAcc == InitAcc /\ [][NextAcc]_vars

AccessorField ==
    [sids |-> "_sids", fids |-> "_fids", x |-> "_x", d |-> "_d", labs |-> "_labs"]

\* C9: whatever the caller reads through sids, fids, x, d and labs and writes
\* into the returned arrays, the identifiers, values, distances and labels
\* of the object stay as constructed, every accessor call returns them, and
\* the two lookups keep their answers.
C9_AccessorsCopy ==
    [][/\ \A f \in {"_sids", "_fids", "_x", "_d", "_labs"} : self'[f] = self[f]
       /\ call'.op \in DOMAIN AccessorField
            => ret' = Ok(self[AccessorField[call'.op]])
       /\ \A l \in Labels(MaxLabels) :
            labs_to_sids(self', List(<<l>>)) = labs_to_sids(self, List(<<l>>))
       /\ \A x \in SampleIds(2) :
            sids_to_labs(self', List(<<x>>)) = sids_to_labs(self, List(<<x>>))]_vars

\* the caller has overwritten the sample ids it got, and sids still returns
\* the ids of the object
C9_Witness ==
    /\ call.op = "sids" /\ ret = Ok(self._sids)
    /\ \E i \in DOMAIN held :
         held[i].of = "_sids" /\ Deref(self, held[i]) # self._sids

---------------------------------------------------------------------------
(* Properties of reference orders with foreign ids *)

\* ref is a valid identifier list holding every sample id of the index and
\* at least one id the index does not have
HasExtraIds(ref) ==
    /\ ref.kind = "list"
    /\ check_is_valid_sfids(ref).ok
    /\ Range(self._sids) \subseteq Range(ref.items)
    /\ Range(ref.items) # Range(self._sids)

\* C11: ids of the reference order that the index does not have are
\* ignored: for a valid R holding every sample id of the index plus foreign
\* ids, lab_sorted_sids(R) raises nothing (none of the three assertions
\* fails) and returns the same sample ids and labels as lab_sorted_sids(R'),
\* R' being R with the foreign ids removed and the remaining order kept.
C11_ExtraIdsIgnored ==
    /\ Done("lab_sorted_sids") /\ HasExtraIds(call.ref_sid_order) => ret.ok
    /\ /\ pc = "done2" /\ call.op = "lab_sorted_sids"
       /\ HasExtraIds(call.of.ref_sid_order)
       => /\ call.ref_sid_order.items
              = WithoutForeign(self, call.of.ref_sid_order.items)
          /\ IsPermOf(call.ref_sid_order.items, self._sids)
          /\ call.of_ret.ok
          /\ ret.ok
          /\ call.of_ret.val.sids = ret.val.sids
          /\ call.of_ret.val.labs = ret.val.labs

\* a reference order that starts with a foreign id, has another one between
\* the sample ids, and puts the block of the greater label first
C11_Witness ==
    /\ pc = "done2" /\ call.op = "lab_sorted_sids"
    /\ HasExtraIds(call.of.ref_sid_order)
    /\ Len(self._sids) = 2
    /\ Len(call.of.ref_sid_order.items) = 4
    /\ call.of.ref_sid_order.items[1] \notin Range(self._sids)
    /\ call.of.ref_sid_order.items[3] \notin Range(self._sids)
    /\ call.of_ret.ok /\ ret.ok
    /\ call.of_ret.val = ret.val
    /\ ret.val.labs[1].v > ret.val.labs[2].v

====
